---- MODULE Spec2Model ----
(***************************************************************************)
(* Model of src/signal_closure.cpp (node-gir): GIRSignalClosure::create,   *)
(* closure_marshal, get_signal and finalize_handler, together with the     *)
(* pieces of state they touch: the closures, V8's persistent handle store, *)
(* the reference counts of GIBaseInfo handles and the caller's return slot.*)
(***************************************************************************)
EXTENDS Integers, Sequences, FiniteSets, TLC

\* ------------------------------------------------------------------ bounds
MaxClosures == 2        \* closures the dispatch code creates in one run
MaxParams == 2          \* largest n_param_values the native system passes

\* ------------------------------------------------ the introspection data
\* GType inputs: T1, T2 are objects, T3 an interface, T4 an enum (a variant
\* without signals), T5 has no metadata entry in the repository.
GTypes == {"T1", "T2", "T3", "T4", "T5"}
SignalNames == {"activate", "compute", "changed", "missing"}
Callbacks == {"f", "g"}

NULL == "null"

\* g_irepository_find_by_gtype: the metadata entry of a GType, or NULL.
g_irepository_find_by_gtype(t) ==
    IF t \in {"T1", "T2", "T3", "T4"} THEN t ELSE NULL

\* the variant of a metadata entry (GI_IS_OBJECT_INFO / GI_IS_INTERFACE_INFO)
InfoType(info) ==
    CASE info \in {"T1", "T2"} -> "object"
      [] info = "T3" -> "interface"
      [] OTHER -> "enum"

GI_IS_OBJECT_INFO(info) == InfoType(info) = "object"

GI_IS_INTERFACE_INFO(info) == InfoType(info) = "interface"

\* the signal table of a metadata entry: signal name -> descriptor
SignalTable(info) ==
    CASE info = "T1" -> [n \in {"activate"} |-> "T1::activate"]
      [] info = "T2" -> [n \in {"compute"} |-> "T2::compute"]
      [] info = "T3" -> [n \in {"changed"} |-> "T3::changed"]
      [] OTHER -> [n \in {} |-> NULL]

Signals == {"T1::activate", "T2::compute", "T3::changed"}

\* the ordered parameter types of a signal descriptor
SignalArgs(sig) ==
    CASE sig = "T1::activate" -> <<"int32">>
      [] sig = "T2::compute" -> <<>>
      [] sig = "T3::changed" -> <<"utf8", "int32">>
      [] OTHER -> <<>>

\* the GType of the return slot the native system hands to the marshaller
\* ("G_TYPE_NONE" for a void signal)
SignalReturn(sig) ==
    CASE sig = "T2::compute" -> "gint"
      [] sig = "T3::changed" -> "gboolean"
      [] OTHER -> "G_TYPE_NONE"

\* g_object_info_find_signal / g_interface_info_find_signal
find_signal(info, signal_name) ==
    IF signal_name \in DOMAIN SignalTable(info)
    THEN SignalTable(info)[signal_name]
    ELSE NULL

\* --------------------------------------------------------- event records
\* Each handler is one atomic action; the calls it makes, in program order,
\* are kept as a log of events.
Ev(op, i, tag, v) == [op |-> op, i |-> i, tag |-> tag, v |-> v]

InfoKeys == {"T1", "T2", "T3", "T4"} \cup Signals \cup {"arg_info", "type_info"}

\* effect of a log on the outstanding reference counts of GIBaseInfo handles
RECURSIVE ApplyLog(_, _)
ApplyLog(refs, log) ==
    IF log = <<>> THEN refs
    ELSE LET e == Head(log)
             r == IF e.op \in {"g_irepository_find_by_gtype", "find_signal",
                               "g_callable_info_get_arg", "g_arg_info_get_type"}
                     /\ e.tag \in InfoKeys
                  THEN [refs EXCEPT ![e.tag] = @ + 1]
                  ELSE IF e.op = "g_base_info_unref" /\ e.tag \in InfoKeys
                  THEN [refs EXCEPT ![e.tag] = @ - 1]
                  ELSE refs
         IN ApplyLog(r, Tail(log))

\* number of events of a log that satisfy a test
RECURSIVE CountEv(_, _, _)
CountEv(log, op, tag) ==
    IF log = <<>> THEN 0
    ELSE (IF Head(log).op = op /\ Head(log).tag = tag THEN 1 ELSE 0)
         + CountEv(Tail(log), op, tag)

\* ---------------------------------------------------------- get_signal
\* a lookup that knows object entries only
get_signal_object_only(signal_g_type, signal_name) ==
    LET target_info == g_irepository_find_by_gtype(signal_g_type)
        l0 == <<Ev("g_irepository_find_by_gtype", 0, target_info, 0)>>
    IN IF target_info = NULL
       THEN [signal_info |-> NULL, log |-> <<>>]
       ELSE LET signal_info ==
                    IF GI_IS_OBJECT_INFO(target_info)
                    THEN find_signal(target_info, signal_name)
                    ELSE NULL
            IN [signal_info |-> signal_info,
                log |-> l0 \o (IF signal_info # NULL
                               THEN <<Ev("find_signal", 0, signal_info, 0)>>
                               ELSE <<>>)
                           \o <<Ev("g_base_info_unref", 0, target_info, 0)>>]

\* a lookup that returns at once when the signal is not found and leaves
\* the type's entry referenced
get_signal_leak_on_miss(signal_g_type, signal_name) ==
    LET target_info == g_irepository_find_by_gtype(signal_g_type)
        l0 == <<Ev("g_irepository_find_by_gtype", 0, target_info, 0)>>
    IN IF target_info = NULL
       THEN [signal_info |-> NULL, log |-> <<>>]
       ELSE LET signal_info ==
                    IF GI_IS_OBJECT_INFO(target_info) \/ GI_IS_INTERFACE_INFO(target_info)
                    THEN find_signal(target_info, signal_name)
                    ELSE NULL
            IN IF signal_info = NULL
               THEN [signal_info |-> NULL, log |-> l0]
               ELSE [signal_info |-> signal_info,
                     log |-> l0 \o <<Ev("find_signal", 0, signal_info, 0),
                                     Ev("g_base_info_unref", 0, target_info, 0)>>]

\* GIRSignalClosure::get_signal: the descriptor and the calls made
get_signal(signal_g_type, signal_name) ==
    LET target_info == g_irepository_find_by_gtype(signal_g_type)
        l0 == <<Ev("g_irepository_find_by_gtype", 0, target_info, 0)>>
    IN IF target_info = NULL
       THEN [signal_info |-> NULL, log |-> <<>>]
       ELSE LET signal_info ==
                    IF GI_IS_OBJECT_INFO(target_info)
                    THEN find_signal(target_info, signal_name)
                    ELSE IF GI_IS_INTERFACE_INFO(target_info)
                    THEN find_signal(target_info, signal_name)
                    ELSE NULL
            IN [signal_info |-> signal_info,
                log |-> l0 \o (IF signal_info # NULL
                               THEN <<Ev("find_signal", 0, signal_info, 0)>>
                               ELSE <<>>)
                           \o <<Ev("g_base_info_unref", 0, target_info, 0)>>]

\* ------------------------------------------------------ values (values.h)
\* A native GValue is [g_type, v]; a dynamic (JS) value is [tag, v].
\* Strings are numbered: v is the number of the string.
GValue(g_type, v) == [g_type |-> g_type, v |-> v]

JS(tag, v) == [tag |-> tag, v |-> v]

JSNull == JS("null", 0)

JSUndefined == JS("undefined", 0)

\* an empty handle: Local<Value>() / an empty MaybeLocal
JSEmpty == JS("empty", 0)

\* what a non-void return slot holds when marshal is entered
PriorValue == 99

\* the native values the signal system passes as parameters
NativeValues == {GValue("gint", 42), GValue("gchararray", 1)}

\* what a callback can hand back: nothing (it threw), null, undefined, or a value
CallbackResults == {JSEmpty, JSNull, JSUndefined, JS("number", 7), JS("string", 1)}

\* GIRValue::from_g_value: native -> dynamic under a type descriptor; a
\* failure throws a Nan error and hands back an empty handle.
from_g_value(native, type_info) ==
    CASE type_info = "int32" /\ native.g_type = "gint" ->
            [ok |-> TRUE, value |-> JS("number", native.v)]
      [] type_info = "utf8" /\ native.g_type = "gchararray" ->
            [ok |-> TRUE, value |-> JS("string", native.v)]
      [] type_info = "boolean" /\ native.g_type = "gboolean" ->
            [ok |-> TRUE, value |-> JS("boolean", native.v)]
      [] OTHER -> [ok |-> FALSE, value |-> JSEmpty]

\* GIRValue::to_g_value: dynamic -> native of the wanted GType, written into
\* the slot; FALSE and an untouched slot when the value does not fit.
to_g_value(value, g_type, slot) ==
    CASE g_type = "gint" /\ value.tag = "number" ->
            [ok |-> TRUE, slot |-> [g_type |-> g_type, v |-> value.v]]
      [] g_type = "gchararray" /\ value.tag = "string" ->
            [ok |-> TRUE, slot |-> [g_type |-> g_type, v |-> value.v]]
      [] g_type = "gboolean" /\ value.tag = "boolean" ->
            [ok |-> TRUE, slot |-> [g_type |-> g_type, v |-> value.v]]
      [] OTHER -> [ok |-> FALSE, slot |-> slot]

IsNull(value) == value.tag = "null"

IsUndefined(value) == value.tag = "undefined"

IsEmpty(value) == value.tag = "empty"

\* the return slot the native system passes for a signal: a GValue of the
\* signal's return type that holds the emission's value so far (PriorValue);
\* a null pointer for a void signal.
NullSlot == [g_type |-> "NULL", v |-> 0]

ReturnSlots(sig) ==
    IF SignalReturn(sig) = "G_TYPE_NONE"
    THEN {NullSlot}
    ELSE {[g_type |-> SignalReturn(sig), v |-> PriorValue]}

\* the parameter arrays the native system can pass
ParamValues == UNION {[1..n -> NativeValues] : n \in 0..MaxParams}

\* What the environment decides during one marshal call:
\*   result   what the callback returns when it runs (CallbackResults)
\*   pending  Nan::Call while an exception is already scheduled is illegal in
\*            V8: the callback runs, or the call yields nothing, or aborts
\*   overrun  g_callable_info_get_arg past the last parameter reads outside
\*            the descriptor: the process dies or a stray type is read
\*   nullref  G_VALUE_TYPE of a null return_value: the process dies or a
\*            stray type is read
PendingOutcomes == {"runs", "skipped", "crash"}

OverrunOutcomes == {"crash", "int32"}

NullrefOutcomes == {"crash", "G_TYPE_INVALID"}

\* ------------------------------------------------------- closure_marshal
\* line 54: the native parameter of loop index i (0-based)
native_param_at(param_values, i) == param_values[i + 1]

\* lines 59-63: the type descriptor the loop fetches for index i; past the
\* descriptor's last parameter the read is outside the array
arg_type_info(signal_info, i, overrun) ==
    IF i < Len(SignalArgs(signal_info))
    THEN SignalArgs(signal_info)[i + 1]
    ELSE overrun

\* a store that always writes the first element of the vector
store_arg_front(callback_argv, i, js_param) == [callback_argv EXCEPT ![1] = js_param]

\* line 76: callback_argv[i] = js_param
store_arg(callback_argv, i, js_param) == [callback_argv EXCEPT ![i + 1] = js_param]

\* a clean-up that drops the closure's signal_info in place of the arg_info
unref_arg_handles_signal_info(i, signal_info) ==
    <<Ev("g_base_info_unref", i, signal_info, 0),
      Ev("g_base_info_unref", i, "type_info", 0)>>

\* a clean-up that forgets the type_info
unref_arg_handles_no_type(i, signal_info) ==
    <<Ev("g_base_info_unref", i, "arg_info", 0)>>

\* lines 72-73: the loop's clean-up of the handles of index i
unref_arg_handles(i, signal_info) ==
    <<Ev("g_base_info_unref", i, "arg_info", 0),
      Ev("g_base_info_unref", i, "type_info", 0)>>

\* a loop test that leaves the loop one index early
loop_continues_short(i, n_param_values) == i + 1 < n_param_values

\* line 52: the loop test i < n_param_values
loop_continues(i, n_param_values) == i < n_param_values

\* lines 52-77: the argument loop from index i on.
\* acc = [argv, log, pending, crashed]; pending: a Nan error is scheduled.
RECURSIVE marshal_args(_, _, _, _, _)
marshal_args(signal_info, param_values, i, overrun, acc) ==
    IF ~loop_continues(i, Len(param_values)) \/ acc.crashed THEN acc
    ELSE IF i >= Len(SignalArgs(signal_info)) /\ overrun = "crash"
    THEN [acc EXCEPT !.crashed = TRUE,
                     !.log = @ \o <<Ev("g_callable_info_get_arg", i, "overrun", 0)>>]
    ELSE LET native_param == native_param_at(param_values, i)
             type_info == arg_type_info(signal_info, i, overrun)
             conv == from_g_value(native_param, type_info)
             js_param == conv.value
             log == <<Ev("g_callable_info_get_arg", i, "arg_info", 0),
                      Ev("g_arg_info_get_type", i, "type_info", 0),
                      Ev("from_g_value", i, type_info, IF conv.ok THEN 1 ELSE 0)>>
                    \o (IF conv.ok THEN <<>>
                        ELSE <<Ev("Nan::ThrowError", i, "from_g_value", 0)>>)
                    \o unref_arg_handles(i, signal_info)
         IN marshal_args(signal_info, param_values, i + 1, overrun,
                [argv |-> store_arg(acc.argv, i, js_param),
                 log |-> acc.log \o log,
                 pending |-> acc.pending \/ ~conv.ok,
                 crashed |-> FALSE])

\* a handling that zeroes the caller's slot when there is no return value
no_return_value_cleared(return_value) ==
    IF return_value.g_type = "NULL" THEN return_value
    ELSE [return_value EXCEPT !.v = 0]

\* lines 96-97: no return value; "return_value = nullptr" changes the local
\* pointer only, the caller's slot stays as it is
no_return_value(return_value) == return_value

\* the test of line 105 without its negation
conversion_failed_inverted(ok) == ok

\* line 105: the test that decides that the conversion failed
conversion_failed(ok) == ~ok

\* a failed conversion that is not reported
throw_conversion_error_missing == <<>>

\* line 106: the error thrown to JS land
throw_conversion_error ==
    <<Ev("Nan::ThrowError", 0, "cannot convert return value of callback to a GI type", 0)>>

\* lines 93-110: what marshal does with the callback's result.
\* Yields the caller's slot afterwards, the calls made, and whether the
\* process died.
handle_result(maybe_result, return_value, nullref) ==
    IF IsEmpty(maybe_result) \/ IsNull(maybe_result) \/ IsUndefined(maybe_result)
    THEN [slot |-> no_return_value(return_value), log |-> <<>>, crashed |-> FALSE]
    ELSE IF return_value.g_type = "NULL" /\ nullref = "crash"
    THEN [slot |-> return_value,
          log |-> <<Ev("G_VALUE_TYPE", 0, "NULL", 0)>>, crashed |-> TRUE]
    ELSE LET g_type == IF return_value.g_type = "NULL" THEN nullref
                       ELSE return_value.g_type
             r == to_g_value(maybe_result, g_type, return_value)
         IN [slot |-> r.slot,
             log |-> <<Ev("G_VALUE_TYPE", 0, g_type, 0),
                       Ev("to_g_value", 0, g_type, IF r.ok THEN 1 ELSE 0)>>
                     \o (IF conversion_failed(r.ok) THEN throw_conversion_error
                         ELSE <<>>),
             crashed |-> FALSE]

\* a call that binds the callback itself as its receiver
receiver_binding_callback(gsc) == gsc.callback

\* line 88: the receiver of the call, Nan::GetCurrentContext()->Global()
receiver_binding(gsc) == "Global"

\* lines 37-111: one marshal call on a closure.
\*   gsc          the closure's private fields [callback, signal_info]
\*   handle_live  the closure's persistent handle is in V8's handle store
closure_marshal(gsc, handle_live, return_value, param_values, result, pending, overrun, nullref) ==
    LET n_param_values == Len(param_values)
        args == marshal_args(gsc.signal_info, param_values, 0, overrun,
                    [argv |-> [j \in 1..n_param_values |-> JSEmpty],
                     log |-> <<>>, pending |-> FALSE, crashed |-> FALSE])
        none == [argv |-> args.argv, log |-> args.log, invoked |-> 0,
                 callee |-> NULL, receiver |-> NULL, argc |-> 0,
                 maybe_result |-> JSEmpty, slot |-> return_value, crashed |-> TRUE]
    IN IF args.crashed THEN none
       ELSE IF ~handle_live \/ (args.pending /\ pending = "crash")
       THEN [none EXCEPT !.log = @ \o <<Ev("Nan::New", 0, gsc.callback, 0)>>]
       ELSE LET runs == ~args.pending \/ pending = "runs"
                maybe_result == IF runs THEN result ELSE JSEmpty
                h == handle_result(maybe_result, return_value, nullref)
            IN [argv |-> args.argv,
                log |-> args.log
                        \o <<Ev("Nan::New", 0, gsc.callback, 1),
                             Ev("Nan::Call", n_param_values, receiver_binding(gsc),
                                IF runs THEN 1 ELSE 0)>>
                        \o h.log,
                invoked |-> IF runs THEN 1 ELSE 0,
                callee |-> IF runs THEN gsc.callback ELSE NULL,
                receiver |-> IF runs THEN receiver_binding(gsc) ELSE NULL,
                argc |-> IF runs THEN n_param_values ELSE 0,
                maybe_result |-> maybe_result,
                slot |-> h.slot,
                crashed |-> h.crashed]

\* ------------------------------------------------------------------ state
VARIABLES
    closures,    \* closure address -> GIRSignalClosure (GClosure + private fields)
    persistent,  \* V8's store of live persistent handles: [owner, fn]
    inforefs,    \* GIBaseInfo handle -> references handed out and not yet unref'd
    hist,        \* per closure: the callback given to create (while the closure
                 \* exists), and how often its descriptor reference and its
                 \* callback handle were released
    last         \* the last call made by the native side, with its outcome

vars == <<closures, persistent, inforefs, hist, last>>

ClosureIds == 1..MaxClosures

\* memory that holds no closure (not yet allocated, or freed after finalize)
NoClosure(state) ==
    [state |-> state, callback |-> NULL, signal_info |-> NULL,
     marshal |-> FALSE, finalize_notifier |-> FALSE]

NoCall ==
    [op |-> "none", closure |-> 0, g_type |-> NULL, name |-> NULL,
     callback |-> NULL, signal_info |-> NULL, params |-> <<>>,
     slot_before |-> NullSlot, slot |-> NullSlot, argv |-> <<>>, log |-> <<>>,
     invoked |-> 0, callee |-> NULL, receiver |-> NULL, argc |-> 0,
     maybe_result |-> JSEmpty, crashed |-> FALSE]

Init ==
    /\ closures = [c \in ClosureIds |-> NoClosure("none")]
    /\ persistent = {}
    /\ inforefs = [k \in InfoKeys |-> 0]
    /\ hist = [c \in ClosureIds |-> [given |-> NULL, info_released |-> 0, cb_released |-> 0]]
    /\ last = NoCall

\* the address g_closure_new_simple hands out next; 0 when the model's
\* closures are used up
NextClosure ==
    IF \E c \in ClosureIds : closures[c].state = "none"
    THEN CHOOSE c \in ClosureIds :
            /\ closures[c].state = "none"
            /\ \A d \in ClosureIds : closures[d].state = "none" => c <= d
    ELSE 0

\* ----------------------------------------------------------------- create
\* a callback field that keeps the caller's local handle and makes no
\* persistent one
PersistentFunction_local_only(pers, id, callback) == pers

\* line 31: the closure's callback field takes a persistent handle
PersistentFunction(pers, id, callback) == pers \cup {[owner |-> id, fn |-> callback]}

\* lines 24-32: the closure allocated and filled in
new_closure(callback, signal_info) ==
    [state |-> "live", callback |-> callback, signal_info |-> signal_info,
     marshal |-> TRUE, finalize_notifier |-> TRUE]

new_closure_log(id, callback) ==
    <<Ev("g_closure_new_simple", id, "closure", 0),
      Ev("g_closure_add_finalize_notifier", id, "finalize_handler", 0),
      Ev("g_closure_set_marshal", id, "closure_marshal", 0),
      Ev("PersistentFunction", id, callback, 0)>>

\* create that allocates and fills the closure before it looks at the
\* result of the lookup
create_before_check(cls, pers, id, signal_g_type, signal_name, callback) ==
    LET r == get_signal(signal_g_type, signal_name)
        signal_info == r.signal_info
        filled == [closures |-> [cls EXCEPT ![id] = new_closure(callback, signal_info)],
                   persistent |-> PersistentFunction(pers, id, callback),
                   log |-> r.log \o new_closure_log(id, callback)]
    IN [closure |-> IF signal_info = NULL THEN 0 ELSE id,
        signal_info |-> signal_info,
        closures |-> filled.closures,
        persistent |-> filled.persistent,
        log |-> filled.log]

\* lines 14-35. id is the address g_closure_new_simple returns.
create(cls, pers, id, signal_g_type, signal_name, callback) ==
    LET r == get_signal(signal_g_type, signal_name)
        signal_info == r.signal_info
    IN IF signal_info = NULL
       THEN [closure |-> 0, signal_info |-> NULL,
             closures |-> cls, persistent |-> pers, log |-> r.log]
       ELSE [closure |-> id, signal_info |-> signal_info,
             closures |-> [cls EXCEPT ![id] = new_closure(callback, signal_info)],
             persistent |-> PersistentFunction(pers, id, callback),
             log |-> r.log \o new_closure_log(id, callback)]

\* the dispatch code calls create(instance, type, name, callback)
Create ==
    \E signal_g_type \in GTypes, signal_name \in SignalNames, callback \in Callbacks :
        LET id == NextClosure
            r == create(closures, persistent, id, signal_g_type, signal_name, callback)
        IN /\ last.op = "none"
           /\ id # 0 \/ get_signal(signal_g_type, signal_name).signal_info = NULL
           /\ closures' = r.closures
           /\ persistent' = r.persistent
           /\ inforefs' = ApplyLog(inforefs, r.log)
           /\ hist' = IF r.closure = 0 THEN hist
                      ELSE [hist EXCEPT ![r.closure].given = callback]
           /\ last' = [NoCall EXCEPT !.op = "create", !.closure = r.closure,
                                     !.g_type = signal_g_type, !.name = signal_name,
                                     !.callback = callback,
                                     !.signal_info = r.signal_info,
                                     !.log = r.log]

\* ---------------------------------------------------------------- marshal
\* the releases a log makes of a closure's two resources
Released(h, gsc, log) ==
    [h EXCEPT !.info_released = @ + CountEv(log, "g_base_info_unref", gsc.signal_info),
              !.cb_released = @ + CountEv(log, "callback.Reset", gsc.callback)]

Usable(value) == ~(IsEmpty(value) \/ IsNull(value) \/ IsUndefined(value))

\* the native signal system emits: one marshal call on a live closure.
\* Each choice of the environment is drawn only where the call looks at it.
Marshal ==
    \E c \in ClosureIds, param_values \in ParamValues :
        /\ last.op = "none"
        /\ closures[c].state = "live"
        /\ closures[c].marshal
        /\ LET gsc == closures[c]
               k == Len(SignalArgs(gsc.signal_info)) IN
           \E return_value \in ReturnSlots(gsc.signal_info),
              overrun \in (IF Len(param_values) > k THEN OverrunOutcomes ELSE {"crash"}) :
             LET args == marshal_args(gsc.signal_info, param_values, 0, overrun,
                            [argv |-> [j \in 1..Len(param_values) |-> JSEmpty],
                             log |-> <<>>, pending |-> FALSE, crashed |-> FALSE]) IN
             \E pending \in (IF args.pending /\ ~args.crashed
                             THEN PendingOutcomes ELSE {"runs"}) :
             \E result \in (IF pending = "runs" /\ ~args.crashed
                            THEN CallbackResults ELSE {JSEmpty}) :
             \E nullref \in (IF return_value.g_type = "NULL" /\ Usable(result)
                             THEN NullrefOutcomes ELSE {"crash"}) :
               LET handle_live == [owner |-> c, fn |-> gsc.callback] \in persistent
                   m == closure_marshal(gsc, handle_live, return_value, param_values,
                                        result, pending, overrun, nullref)
               IN /\ closures' = closures
                  /\ persistent' = persistent
                  /\ inforefs' = ApplyLog(inforefs, m.log)
                  /\ hist' = [hist EXCEPT ![c] = Released(@, gsc, m.log)]
                  /\ last' = [NoCall EXCEPT !.op = "marshal", !.closure = c,
                                            !.callback = gsc.callback,
                                            !.signal_info = gsc.signal_info,
                                            !.params = param_values,
                                            !.slot_before = return_value,
                                            !.slot = m.slot, !.argv = m.argv,
                                            !.log = m.log, !.invoked = m.invoked,
                                            !.callee = m.callee, !.receiver = m.receiver,
                                            !.argc = m.argc,
                                            !.maybe_result = m.maybe_result,
                                            !.crashed = m.crashed]

\* --------------------------------------------------------------- finalize
\* a handler that releases the descriptor twice
finalize_handler_double_unref(gsc, pers, id) ==
    [closure |-> [gsc EXCEPT !.callback = NULL],
     persistent |-> pers \ {[owner |-> id, fn |-> gsc.callback]},
     log |-> <<Ev("g_base_info_unref", id, gsc.signal_info, 0),
               Ev("g_base_info_unref", id, gsc.signal_info, 0),
               Ev("callback.Reset", id, gsc.callback, 0)>>]

\* a handler that releases the descriptor and keeps the callback handle
finalize_handler_no_reset(gsc, pers, id) ==
    [closure |-> gsc, persistent |-> pers,
     log |-> <<Ev("g_base_info_unref", id, gsc.signal_info, 0)>>]

\* lines 136-144: the closure's fields and the handle store after the
\* handler, and the calls made
finalize_handler(gsc, pers, id) ==
    [closure |-> [gsc EXCEPT !.callback = NULL],
     persistent |-> pers \ {[owner |-> id, fn |-> gsc.callback]},
     log |-> <<Ev("g_base_info_unref", id, gsc.signal_info, 0),
               Ev("callback.Reset", id, gsc.callback, 0)>>]

\* the native signal system drops its last reference: it runs the finalize
\* notifier once and frees the closure's memory
Finalize ==
    \E c \in ClosureIds :
        /\ last.op = "none"
        /\ closures[c].state = "live"
        /\ LET gsc == closures[c]
               f == IF gsc.finalize_notifier
                    THEN finalize_handler(gsc, persistent, c)
                    ELSE [closure |-> gsc, persistent |-> persistent, log |-> <<>>]
           IN /\ closures' = [closures EXCEPT ![c] = NoClosure("finalized")]
              /\ persistent' = f.persistent
              /\ inforefs' = ApplyLog(inforefs, f.log)
              /\ hist' = [hist EXCEPT ![c] = [Released(@, gsc, f.log) EXCEPT !.given = NULL]]
              /\ last' = [NoCall EXCEPT !.op = "finalize", !.closure = c,
                                        !.callback = gsc.callback,
                                        !.signal_info = gsc.signal_info,
                                        !.log = f.log]

\* control is back in the native side, which has taken the outcome of the
\* call; a process that died makes no further step
Return ==
    /\ last.op # "none"
    /\ ~last.crashed
    /\ last' = NoCall
    /\ UNCHANGED <<closures, persistent, inforefs, hist>>

Next == Create \/ Marshal \/ Finalize \/ Return

Spec == Init /\ [][Next]_vars

TypeOK ==
    /\ \A c \in ClosureIds : closures[c].state \in {"none", "live", "finalized"}
    /\ \A k \in InfoKeys : inforefs[k] >= 0
    /\ last.op \in {"none", "create", "marshal", "finalize"}

\* ------------------------------------------------------------ properties
\* number of events of a log made by one call
RECURSIVE CountOp(_, _)
CountOp(log, op) ==
    IF log = <<>> THEN 0
    ELSE (IF Head(log).op = op THEN 1 ELSE 0) + CountOp(Tail(log), op)

\* errors thrown by the argument conversions of a marshal call
ArgErrors(log) == CountEv(log, "Nan::ThrowError", "from_g_value")

\* errors thrown by marshal's handling of the callback's result
ReturnErrors(log) ==
    CountEv(log, "Nan::ThrowError", "cannot convert return value of callback to a GI type")

\* the signal table's entry for a (type, name) input, stated from the
\* repository's data: only object and interface entries have signals
TableEntry(t, n) ==
    IF /\ t \in {"T1", "T2", "T3", "T4"}
       /\ InfoType(t) \in {"object", "interface"}
       /\ n \in DOMAIN SignalTable(t)
    THEN SignalTable(t)[n]
    ELSE NULL

\* C1: for every (type, name) the lookup made by create yields the signal
\* table's entry when the type has an object or interface entry that holds
\* the name, and NULL otherwise, and throws nothing.
C1_ResolveReturnsTableEntry ==
    last.op = "create" =>
        /\ last.signal_info = TableEntry(last.g_type, last.name)
        /\ CountOp(last.log, "Nan::ThrowError") = 0
        /\ ~last.crashed

C1_Witness ==
    /\ last.op = "create"
    /\ last.g_type = "T3"
    /\ last.signal_info = "T3::changed"

\* C2: a create whose lookup finds nothing returns no closure and leaves
\* the closures, the persistent handles and the descriptor references as
\* they were; it allocates nothing and registers no hook.
C2_FailedCreateChangesNothing ==
    [][(last'.op = "create" /\ last'.signal_info = NULL) =>
          /\ last'.closure = 0
          /\ closures' = closures
          /\ persistent' = persistent
          /\ inforefs' = inforefs
          /\ hist' = hist
          /\ CountOp(last'.log, "g_closure_new_simple") = 0
          /\ CountOp(last'.log, "g_closure_add_finalize_notifier") = 0
          /\ CountOp(last'.log, "g_closure_set_marshal") = 0
          /\ CountOp(last'.log, "PersistentFunction") = 0]_vars

C2_Witness ==
    /\ last.op = "create"
    /\ last.signal_info = NULL
    /\ last.closure = 0
    /\ last.g_type = "T4"
    /\ \E c \in ClosureIds : closures[c].state = "live"

\* every native value of the call converts under the descriptor's type of
\* its position, and there are exactly as many values as parameters
ExactConvertibleArgs(sig, params) ==
    /\ Len(params) = Len(SignalArgs(sig))
    /\ \A j \in 1..Len(params) : from_g_value(params[j], SignalArgs(sig)[j]).ok

\* C3: a marshal call with exactly k convertible native values for a signal
\* of k parameters invokes the callback exactly once with k arguments, the
\* j-th being the conversion of the j-th native value under the j-th type.
C3_MarshalDeliversArguments ==
    (last.op = "marshal" /\ ExactConvertibleArgs(last.signal_info, last.params)) =>
        /\ last.invoked = 1
        /\ CountOp(last.log, "Nan::Call") = 1
        /\ last.argc = Len(SignalArgs(last.signal_info))
        /\ Len(last.argv) = Len(SignalArgs(last.signal_info))
        /\ \A j \in 1..Len(last.argv) :
              last.argv[j] = from_g_value(last.params[j],
                                          SignalArgs(last.signal_info)[j]).value

C3_Witness ==
    /\ last.op = "marshal"
    /\ last.signal_info = "T3::changed"
    /\ last.params = <<GValue("gchararray", 1), GValue("gint", 42)>>
    /\ last.invoked = 1
    /\ last.argv = <<JS("string", 1), JS("number", 42)>>

\* the callback ran and returned a value that is neither null nor undefined
ReturnedUsable == last.op = "marshal" /\ last.invoked = 1 /\ Usable(last.maybe_result)

\* C4: when the callback returns a usable value that converts to the type
\* of the return slot, the slot holds the converted value after the call and
\* the handling of the result throws no error (no error at all when no
\* argument conversion failed).
C4_ReturnValueStored ==
    (/\ ReturnedUsable
     /\ last.slot_before.g_type # "NULL"
     /\ to_g_value(last.maybe_result, last.slot_before.g_type, last.slot_before).ok) =>
        /\ last.slot = [g_type |-> last.slot_before.g_type, v |-> last.maybe_result.v]
        /\ ReturnErrors(last.log) = 0
        /\ ArgErrors(last.log) = 0 => CountOp(last.log, "Nan::ThrowError") = 0
        /\ ~last.crashed

C4_Witness ==
    /\ last.op = "marshal"
    /\ last.signal_info = "T2::compute"
    /\ last.maybe_result = JS("number", 7)
    /\ last.slot_before = [g_type |-> "gint", v |-> PriorValue]
    /\ last.slot = [g_type |-> "gint", v |-> 7]

\* C5: a marshal call for a void signal never reads the type of the return
\* slot, never hands the slot to the conversion and leaves it as it was.
C5_VoidNeverTouchesSlot ==
    (last.op = "marshal" /\ SignalReturn(last.signal_info) = "G_TYPE_NONE") =>
        /\ CountOp(last.log, "G_VALUE_TYPE") = 0
        /\ CountOp(last.log, "to_g_value") = 0
        /\ last.slot = last.slot_before

ArgFailedAt(log, i) ==
    \E e \in 1..Len(log) :
        log[e].op = "from_g_value" /\ log[e].i = i /\ log[e].v = 0

\* C8: when the conversion of argument i fails, no later argument is
\* converted, the callback is not called, the failure is thrown as an error
\* and the return slot is as before.
C8_ArgFailureAborts ==
    \A i \in 0..MaxParams :
        (last.op = "marshal" /\ ArgFailedAt(last.log, i)) =>
            /\ \A e \in 1..Len(last.log) :
                  last.log[e].op = "from_g_value" => last.log[e].i <= i
            /\ CountOp(last.log, "Nan::Call") = 0
            /\ last.invoked = 0
            /\ ArgErrors(last.log) = 1
            /\ last.slot = last.slot_before

\* C9: a live closure has had neither its descriptor reference nor its
\* callback handle released; a finalized closure has had each released
\* exactly once.
C9_ReleasedOnceByFinalize ==
    \A c \in ClosureIds :
        /\ closures[c].state \in {"none", "live"} =>
              hist[c].info_released = 0 /\ hist[c].cb_released = 0
        /\ closures[c].state = "finalized" =>
              hist[c].info_released = 1 /\ hist[c].cb_released = 1

C9_Witness ==
    /\ last.op = "finalize"
    /\ closures[last.closure].state = "finalized"
    /\ hist[last.closure].info_released = 1
    /\ hist[last.closure].cb_released = 1
    /\ \E c \in ClosureIds : closures[c].state = "live"

\* C10: a live closure holds the callback given to create behind a handle
\* that is in the handle store, and a descriptor with a reference
\* outstanding; a marshal call whose arguments all convert calls that
\* callback, and whenever the callback runs it is the one given to create.
C10_LiveClosureHoldsHandles ==
    /\ \A c \in ClosureIds : closures[c].state = "live" =>
          /\ closures[c].callback = hist[c].given
          /\ [owner |-> c, fn |-> hist[c].given] \in persistent
          /\ closures[c].signal_info \in Signals
          /\ inforefs[closures[c].signal_info] >= 1
    /\ (last.op = "marshal" /\ last.invoked = 1) =>
          /\ last.callee = hist[last.closure].given
          /\ \E e \in 1..Len(last.log) : last.log[e] = Ev("Nan::New", 0, last.callee, 1)
    /\ (last.op = "marshal" /\ ArgErrors(last.log) = 0
          /\ Len(last.params) <= Len(SignalArgs(last.signal_info))) =>
          last.invoked = 1

C10_Witness ==
    /\ last.op = "marshal"
    /\ last.invoked = 1
    /\ last.callee = "g"
    /\ \E c \in ClosureIds : c # last.closure /\ closures[c].state = "live"
                             /\ closures[c].callback = "f"

\* C11: a marshal call never fetches the argument info of an index at or
\* past the descriptor's parameter count; when the number of native values
\* differs from that count it throws an error and converts nothing.
C11_NoFetchPastDescriptor ==
    last.op = "marshal" =>
        LET k == Len(SignalArgs(last.signal_info)) IN
        /\ \A e \in 1..Len(last.log) :
              last.log[e].op = "g_callable_info_get_arg" => last.log[e].i < k
        /\ Len(last.params) # k =>
              /\ CountOp(last.log, "Nan::ThrowError") >= 1
              /\ CountOp(last.log, "from_g_value") = 0
              /\ last.invoked = 0

\* the positions of a log that hold a call of the given name
PosOf(log, op) == {e \in 1..Len(log) : log[e].op = op}

\* C12: within one marshal call the conversions are made in index order
\* 0, 1, ...; the callback is called only after the conversions of all n
\* native values, with n arguments; the conversion of the result comes
\* after the call of the callback.
C12_MarshalStepsOrdered ==
    last.op = "marshal" =>
        LET log == last.log
            n == Len(last.params)
            convs == PosOf(log, "from_g_value")
            calls == PosOf(log, "Nan::Call")
        IN /\ \A p \in convs : log[p].i = Cardinality({q \in convs : q < p})
           /\ \A p \in calls :
                 /\ Cardinality({q \in convs : q < p}) = n
                 /\ \A q \in convs : q < p
                 /\ log[p].i = n
                 /\ Len(last.argv) = n
           /\ \A r \in PosOf(log, "to_g_value") \cup PosOf(log, "G_VALUE_TYPE") :
                 \E p \in calls : p < r
           /\ Cardinality(calls) <= 1

C12_Witness ==
    /\ last.op = "marshal"
    /\ Len(last.params) = 2
    /\ last.invoked = 1
    /\ CountOp(last.log, "from_g_value") = 2
    /\ CountOp(last.log, "Nan::Call") = 1
    /\ CountOp(last.log, "to_g_value") = 1

\* C13: whenever the lookup made by create found the type's entry (signal
\* found, signal absent, or entry of another variant), the entry is
\* referenced once and released once, after the signal lookup and before
\* anything else is done; the one reference the lookup leaves behind is the
\* signal descriptor's, and only when a descriptor is returned.
C13_TypeEntryReleased ==
    /\ \A t \in {"T1", "T2", "T3", "T4"} : inforefs[t] = 0
    /\ (last.op = "create" /\ g_irepository_find_by_gtype(last.g_type) # NULL) =>
          LET log == last.log
              t == g_irepository_find_by_gtype(last.g_type)
              found == last.signal_info # NULL
          IN /\ log[1] = Ev("g_irepository_find_by_gtype", 0, t, 0)
             /\ CountOp(log, "g_irepository_find_by_gtype") = 1
             /\ CountOp(log, "g_base_info_unref") = 1
             /\ CountEv(log, "g_base_info_unref", t) = 1
             /\ CountOp(log, "find_signal") = (IF found THEN 1 ELSE 0)
             /\ found => /\ log[2] = Ev("find_signal", 0, last.signal_info, 0)
                         /\ log[3] = Ev("g_base_info_unref", 0, t, 0)
             /\ ~found => /\ Len(log) = 2
                          /\ log[2] = Ev("g_base_info_unref", 0, t, 0)

C13_Witness ==
    /\ last.op = "create"
    /\ last.g_type = "T3"
    /\ last.name = "missing"
    /\ last.signal_info = NULL
    /\ CountEv(last.log, "g_base_info_unref", "T3") = 1

\* C14: every marshal call comes back to the native signal system: the
\* process does not die in it, whatever the conversions and the callback do.
C14_MarshalReturnsNormally ==
    last.op = "marshal" => ~last.crashed

\* the closures that exist and were made for a signal
LiveOn(sig) == {c \in ClosureIds : closures[c].state = "live" /\ closures[c].signal_info = sig}

\* C15: for every signal the number of descriptor references outstanding
\* equals the number of live closures made for it, and the handle store
\* holds exactly one callback handle per live closure, its own; so after a
\* closure is finalized every other live closure still has its descriptor
\* reference and its callback handle.
C15_OneReferencePerLiveClosure ==
    /\ \A sig \in Signals : inforefs[sig] = Cardinality(LiveOn(sig))
    /\ persistent = {[owner |-> c, fn |-> closures[c].callback] :
                        c \in {d \in ClosureIds : closures[d].state = "live"}}

C15_Witness ==
    /\ last.op = "finalize"
    /\ \E c \in ClosureIds :
          /\ c # last.closure
          /\ closures[c].state = "live"
          /\ closures[c].signal_info = last.signal_info
          /\ inforefs[last.signal_info] = 1
          /\ [owner |-> c, fn |-> closures[c].callback] \in persistent

\* C16: a marshal call, on every way out of it, leaves the closures, the
\* handle store, the descriptor references and the count of releases as
\* they were, and when the callback runs it is the closure's stored one.
C16_MarshalKeepsClosure ==
    [][last'.op = "marshal" =>
          /\ closures' = closures
          /\ persistent' = persistent
          /\ hist' = hist
          /\ \A sig \in Signals : inforefs'[sig] = inforefs[sig]
          /\ last'.signal_info = closures[last'.closure].signal_info
          /\ last'.invoked = 1 => last'.callee = closures[last'.closure].callback]_vars

C16_Witness ==
    /\ last.op = "marshal"
    /\ Len(last.params) = 2
    /\ ReturnErrors(last.log) = 1
    /\ closures[last.closure].state = "live"
    /\ closures[last.closure].callback = last.callee
    /\ inforefs[last.signal_info] = 1

\* number of events of a log with the given call, index and handle
CountAt(log, op, i, tag) ==
    Cardinality({e \in 1..Len(log) : log[e].op = op /\ log[e].i = i /\ log[e].tag = tag})

\* the calls made inside the argument loop
LoopOps == {"g_callable_info_get_arg", "g_arg_info_get_type", "from_g_value",
            "g_base_info_unref"}

\* C17: for every index of the argument loop the arg_info and the type_info
\* that were taken are each released exactly once, after the conversion of
\* that index (failed or not) and before anything of the next index; a
\* marshal call that returns has taken and released both for each of its n
\* indices, and no arg_info or type_info reference stays outstanding.
C17_ArgHandlesReleased ==
    /\ (last.op = "none" \/ ~last.crashed) =>
          inforefs["arg_info"] = 0 /\ inforefs["type_info"] = 0
    /\ last.op = "marshal" =>
          LET log == last.log IN
          /\ \A i \in 0..(Len(last.params) - 1) :
                LET taken == CountAt(log, "g_callable_info_get_arg", i, "arg_info") IN
                /\ taken <= 1
                /\ ~last.crashed => taken = 1
                /\ CountAt(log, "g_arg_info_get_type", i, "type_info") = taken
                /\ CountAt(log, "g_base_info_unref", i, "arg_info") = taken
                /\ CountAt(log, "g_base_info_unref", i, "type_info") = taken
          /\ \A p, q \in 1..Len(log) :
                (/\ log[p].op \in LoopOps /\ log[q].op \in LoopOps
                 /\ log[p].i < log[q].i) => p < q
          /\ \A p, q \in 1..Len(log) :
                (/\ log[p].op = "from_g_value" /\ log[q].op = "g_base_info_unref"
                 /\ log[p].i = log[q].i) => p < q
          /\ CountOp(log, "g_base_info_unref") =
                CountOp(log, "g_arg_info_get_type") + CountEv(log, "g_callable_info_get_arg", "arg_info")

C17_Witness ==
    /\ last.op = "marshal"
    /\ ~last.crashed
    /\ Len(last.params) = 2
    /\ ArgFailedAt(last.log, 0)
    /\ CountOp(last.log, "g_base_info_unref") = 4

\* the receivers that stand for no object of the emission: the context's
\* global object, which a plain function is given when it is called without
\* a receiver, and undefined
NeutralReceivers == {"Global", "undefined"}

\* C18: every call of the callback made by marshal binds a neutral
\* receiver (here always the context's global object, line 88), never the
\* callback, a closure or another value of the emission.
C18_NeutralReceiver ==
    last.op = "marshal" =>
        /\ last.invoked = 1 => last.receiver \in NeutralReceivers
        /\ \A e \in 1..Len(last.log) :
              last.log[e].op = "Nan::Call" => last.log[e].tag \in NeutralReceivers

C18_Witness ==
    /\ last.op = "marshal"
    /\ last.invoked = 1
    /\ last.receiver = "Global"
    /\ last.callee = "f"
    /\ last.argc = 1

====
